---- MODULE Spec2Model ----
(***************************************************************************)
(* Model of the routing and vehicle-packing engine of The Furniture        *)
(* Project: RouteAssigner (src/route_assignment.py), and of the daily      *)
(* delivery scheduler TFPSmartScheduler (src/tfp_smart_scheduler.py).      *)
(*                                                                         *)
(* Units.  Coordinates are pairs of integers in 1/10000 degree.  Distances *)
(* are integers in 1/100 mile: the value of the haversine formula of the   *)
(* source, rounded to two decimals.  Times are integers in 1/200 minute,   *)
(* so that 2.5 minutes per mile is 5 units per 1/100 mile.                 *)
(*                                                                         *)
(* An address is represented by the one token of it that get_coordinates   *)
(* can match (a zip code), or by "unknown" when no token matches.          *)
(***************************************************************************)
EXTENDS Integers, Sequences, FiniteSets, TLC

VARIABLES
    df,               \* self.df: the rows read by load_data, as request dicts
    requests,         \* the pending list of assign_all_routes
    truck_load,       \* the load returned by the last pack_truck call
    config,           \* the configuration returned by the last pack_truck call
    optimized_route,  \* the route returned by the last optimize_route_order call
    trucks,           \* the list of truck records built so far
    truck_id,         \* the counter behind "ROUTE_n"
    loads,            \* history: the loads returned by pack_truck, in order
    metrics,          \* (distance, time) returned by the last calculate_route_metrics call
    client_prefs,     \* the preference table given to schedule_daily_deliveries
    target_date,      \* the date given to schedule_daily_deliveries
    daily_deliveries, \* the table returned by schedule_daily_deliveries
    donor_pickups,    \* the table load_donor_pickups returns
    daily_schedule,   \* the dict returned by the last create_daily_schedule or add_manual_delivery call
    suggestion,       \* the value returned by the last suggest_4th_delivery call
    schedules,        \* history: the daily schedules created by the loop over the dates
    day_index,        \* the position of the loop over the dates
    manual_adds,      \* the number of add_manual_delivery calls made on the schedule
    dts_deliveries,   \* DailyTruckScheduler: the deliveries of self.df
    dts_pickups,      \* DailyTruckScheduler: the pickups of self.df
    days,             \* DailyTruckScheduler: the argument days
    schedule,         \* DailyTruckScheduler: the list of truck entries
    delivery_index,   \* DailyTruckScheduler: next delivery to assign
    pickup_index,     \* DailyTruckScheduler: next pickup to assign
    day,              \* DailyTruckScheduler: the day of the outer loop
    truck_num,        \* DailyTruckScheduler: the truck of the inner loop
    pc                \* position in assign_all_routes / in the call under study

\* The arguments and the result of TFPSmartScheduler.schedule_daily_deliveries.
schedVars == <<client_prefs, target_date, daily_deliveries>>

\* The state of the daily schedule of TFPSmartScheduler.
dayVars == <<donor_pickups, daily_schedule, suggestion, schedules, day_index,
             manual_adds>>

\* The state of DailyTruckScheduler.create_daily_schedule.
truckVars == <<dts_deliveries, dts_pickups, days, schedule, delivery_index,
               pickup_index, day, truck_num>>

\* The state of RouteAssigner.
routeVars == <<df, requests, truck_load, config, optimized_route, trucks,
               truck_id, loads, metrics>>

vars == <<routeVars, schedVars, dayVars, truckVars, pc>>

----------------------------------------------------------------------------
(* Bounds *)

MaxReq == 4      \* longest pending pool read from the CSV
MaxLoad == 3     \* longest load handed directly to optimize_route_order
MaxRoute == 4    \* longest route handed directly to calculate_route_metrics
MaxPrefs == 6    \* most rows of the client preference table
MaxPending == 7  \* most deliveries, and most pickups, of master_requests.csv
MaxDayPrefs == 3 \* most preference rows when several dates are scheduled
MaxDonors == 4   \* most rows of the donor pickup table
MaxManualPrefs == 5 \* most preference rows when deliveries are added by hand
MaxAdds == 2     \* most add_manual_delivery calls on one schedule

----------------------------------------------------------------------------
(* Configuration of RouteAssigner.__init__ *)

depot == <<412565, -959345>>

\* Variant of truck_configs: the mixed configuration is tried first.
truck_configs_mixed_first ==
    << [small |-> 2, medium |-> 1, large |-> 0],
       [small |-> 3, medium |-> 0, large |-> 0],
       [small |-> 0, medium |-> 2, large |-> 0],
       [small |-> 0, medium |-> 0, large |-> 1] >>

\* Variant of truck_configs: the large configuration is tried first.
truck_configs_large_first ==
    << [small |-> 0, medium |-> 0, large |-> 1],
       [small |-> 3, medium |-> 0, large |-> 0],
       [small |-> 2, medium |-> 1, large |-> 0],
       [small |-> 0, medium |-> 2, large |-> 0] >>

truck_configs ==
    << [small |-> 3, medium |-> 0, large |-> 0],
       [small |-> 2, medium |-> 1, large |-> 0],
       [small |-> 0, medium |-> 2, large |-> 0],
       [small |-> 0, medium |-> 0, large |-> 1] >>

\* The sizes a configuration has a slot for, and a size no slot exists for.
RecognisedSizes == {"small", "medium", "large"}
Sizes == RecognisedSizes \cup {"xl"}

\* request_type after the normalisation of line 281.
Types == {"pickup", "delivery"}

----------------------------------------------------------------------------
(* Geocoder and distance *)

\* Four entries of the thirteen of the zip table; 68108 and 68114 share
\* their coordinates in the source.
zip_coords ==
    [z \in {"68104", "68111", "68108", "68114"} |->
        CASE z = "68104" -> <<413114, -959208>>
          [] z = "68111" -> <<413456, -959017>>
          [] z = "68108" -> <<412203, -958608>>
          [] z = "68114" -> <<412203, -958608>>]

Addresses == DOMAIN zip_coords \cup {"unknown"}

get_coordinates(address) ==
    IF address \in DOMAIN zip_coords THEN zip_coords[address] ELSE depot

\* Coordinates a caller can put on a stop without going through the zip
\* table: two points north of the depot at 1 and 3 miles from it and 2 miles
\* from each other, and two points that close a triangle with the depot
\* whose legs are 5, 8 and 6 miles.
NearPoint == <<412710, -959345>>
FarPoint == <<412999, -959345>>
LegPoint == <<413289, -959345>>
TurnPoint == <<412522, -958191>>

\* 2 * asin(sqrt(a)) * 3959 for the coordinates above, in 1/100 mile.
haversine_distance(lat1, lon1, lat2, lon2) ==
    LET p == <<lat1, lon1>>
        q == <<lat2, lon2>>
        pair == {p, q}
        D == <<412565, -959345>>
        A == <<413114, -959208>>
        B == <<413456, -959017>>
        C == <<412203, -958608>>
        N == NearPoint
        F == FarPoint
        P == LegPoint
        Q == TurnPoint
    IN  CASE p = q -> 0
          [] pair = {D, A} -> 386
          [] pair = {D, B} -> 639
          [] pair = {D, C} -> 457
          [] pair = {A, B} -> 256
          [] pair = {A, C} -> 702
          [] pair = {B, C} -> 891
          [] pair = {D, N} -> 100
          [] pair = {D, F} -> 300
          [] pair = {D, P} -> 500
          [] pair = {D, Q} -> 600
          [] pair = {A, N} -> 288
          [] pair = {A, F} -> 107
          [] pair = {A, P} -> 140
          [] pair = {A, Q} -> 668
          [] pair = {B, N} -> 543
          [] pair = {B, F} -> 359
          [] pair = {B, P} -> 206
          [] pair = {B, Q} -> 775
          [] pair = {C, N} -> 519
          [] pair = {C, F} -> 670
          [] pair = {C, P} -> 842
          [] pair = {C, Q} -> 309
          [] pair = {N, F} -> 200
          [] pair = {N, P} -> 400
          [] pair = {N, Q} -> 613
          [] pair = {F, P} -> 200
          [] pair = {F, Q} -> 684
          [] pair = {P, Q} -> 800

----------------------------------------------------------------------------
(* List helpers (Python list semantics) *)

Min(a, b) == IF a <= b THEN a ELSE b

Range(s) == {s[i] : i \in DOMAIN s}

IdsOf(s) == {s[i].id : i \in DOMAIN s}

\* Python evaluates an argument once, before the call: Body applied to the
\* value of the expression.
Bind(value, Body(_)) == CHOOSE r \in {Body(v) : v \in {value}} : TRUE

\* Variant of ListRemove: pop(0) in place of remove(x).
ListRemoveHead(s, x) ==
    IF s = <<>> THEN <<>> ELSE Tail(s)

\* list.remove(x): drop the first element equal to x (x is in the list at
\* every call of the source).
ListRemove(s, x) ==
    LET hits == {i \in DOMAIN s : s[i] = x}
    IN  IF hits = {} THEN s
        ELSE LET k == CHOOSE i \in hits : \A j \in hits : i <= j
             IN  SubSeq(s, 1, k - 1) \o SubSeq(s, k + 1, Len(s))

\* list.remove applied for each element of xs in turn.
RECURSIVE ListRemoveAll(_, _)
ListRemoveAll(s, xs) ==
    IF xs = <<>> THEN s
    ELSE Bind(<<ListRemove(s, Head(xs)), Tail(xs)>>,
              LAMBDA a : ListRemoveAll(a[1], a[2]))

----------------------------------------------------------------------------
(* pack_truck *)

\* Variant of SizeOrder: the size small is left out.
SizeOrderNoSmall == <<"large", "medium">>

\* for size in ['large', 'medium', 'small']
SizeOrder == <<"large", "medium", "small">>

\* Variant of PopFront: pop() in place of pop(0).
PopBack(available, take_count) ==
    SubSeq(available, Len(available) - take_count + 1, Len(available))

\* "item = available.pop(0)" repeated take_count times.
PopFront(available, take_count) == SubSeq(available, 1, take_count)

\* One "for size in ..." loop of pack_truck over the list pool (the local
\* list pickups or deliveries), starting at the k-th size.
RECURSIVE FillSizes(_, _, _, _)
FillSizes(k, pool, capacity, load) ==
    IF k > Len(SizeOrder)
    THEN [load |-> load, capacity |-> capacity, pool |-> pool]
    ELSE LET size == SizeOrder[k]
             available == SelectSeq(pool, LAMBDA p : p.size = size)
             take_count == Min(capacity[size], Len(available))
             taken == PopFront(available, take_count)
         IN  Bind([pool |-> ListRemoveAll(pool, taken),
                   capacity |-> [capacity EXCEPT ![size] = @ - take_count],
                   load |-> load \o taken],
                  LAMBDA a : FillSizes(k + 1, a.pool, a.capacity, a.load))

\* Variant of FillConfig: the delivery phase starts from the full
\* configuration instead of the capacity the pickup phase left.
FillConfigFreshCapacity(reqs, cfg) ==
    LET pickups == SelectSeq(reqs, LAMBDA r : r.type = "pickup")
        deliveries == SelectSeq(reqs, LAMBDA r : r.type = "delivery")
        phase1 == FillSizes(1, pickups, cfg, <<>>)
        phase2 == FillSizes(1, deliveries, cfg, phase1.load)
    IN  phase2.load

\* Variant of FillConfig: deliveries are filled before pickups.
FillConfigDeliveriesFirst(reqs, cfg) ==
    LET pickups == SelectSeq(reqs, LAMBDA r : r.type = "pickup")
        deliveries == SelectSeq(reqs, LAMBDA r : r.type = "delivery")
        phase1 == FillSizes(1, deliveries, cfg, <<>>)
        phase2 == FillSizes(1, pickups, phase1.capacity, phase1.load)
    IN  phase2.load

\* The body of "for config in self.truck_configs": the load this
\* configuration yields from the list.
FillConfig(reqs, cfg) ==
    LET pickups == SelectSeq(reqs, LAMBDA r : r.type = "pickup")
        deliveries == SelectSeq(reqs, LAMBDA r : r.type = "delivery")
    IN  Bind(FillSizes(1, pickups, cfg, <<>>),
             LAMBDA phase1 :
                 FillSizes(1, deliveries, phase1.capacity, phase1.load).load)

\* The value of "{}" returned with the empty load: the dict with no key.
NoConfig == <<>>

\* "for config in self.truck_configs" from the k-th configuration on: the
\* first non-empty load is returned with its configuration.
RECURSIVE PackFrom(_, _)
PackFrom(reqs, k) ==
    IF k > Len(truck_configs)
    THEN [truck_load |-> <<>>, config |-> NoConfig, requests |-> reqs]
    ELSE Bind(FillConfig(reqs, truck_configs[k]),
              LAMBDA load :
                  IF load /= <<>>
                  THEN [truck_load |-> load,
                        config |-> truck_configs[k],
                        requests |-> reqs]
                  ELSE PackFrom(reqs, k + 1))

\* Variant of pack_truck: the configuration with the fullest load is kept
\* (the first one among equals).
pack_truck_best_fit(reqs) ==
    LET fits == {k \in DOMAIN truck_configs :
                    FillConfig(reqs, truck_configs[k]) /= <<>>}
        size(k) == Len(FillConfig(reqs, truck_configs[k]))
    IN  IF fits = {}
        THEN [truck_load |-> <<>>, config |-> NoConfig, requests |-> reqs]
        ELSE LET k == CHOOSE i \in fits :
                          /\ \A j \in fits : size(i) >= size(j)
                          /\ \A j \in fits : size(j) = size(i) => i <= j
             IN  [truck_load |-> FillConfig(reqs, truck_configs[k]),
                  config |-> truck_configs[k],
                  requests |-> reqs]

\* Variant of pack_truck: the loop pops the taken requests from the list
\* it was given instead of from its own copies.
pack_truck_in_place(reqs) ==
    LET fits == {k \in DOMAIN truck_configs :
                    FillConfig(reqs, truck_configs[k]) /= <<>>}
    IN  IF fits = {}
        THEN [truck_load |-> <<>>, config |-> NoConfig, requests |-> reqs]
        ELSE LET k == CHOOSE i \in fits : \A j \in fits : i <= j
                 load == FillConfig(reqs, truck_configs[k])
             IN  [truck_load |-> load,
                  config |-> truck_configs[k],
                  requests |-> ListRemoveAll(reqs, load)]

\* pack_truck(requests): the load, the configuration, and the list
\* requests as the call leaves it.
pack_truck(reqs) == PackFrom(reqs, 1)

----------------------------------------------------------------------------
(* optimize_route_order and nearest_neighbor_route *)

\* item['coordinates'] = self.get_coordinates(item['address'])
WithCoordinates(item) ==
    [id |-> item.id, address |-> item.address, size |-> item.size,
     type |-> item.type, coordinates |-> get_coordinates(item.address)]

Distance(pos, stop) ==
    haversine_distance(pos[1], pos[2],
                       stop.coordinates[1], stop.coordinates[2])

\* Variant of Nearest: the last element whose key is minimal.
NearestLastOfTies(remaining, current_pos) ==
    LET k == CHOOSE i \in DOMAIN remaining :
                 /\ \A j \in DOMAIN remaining :
                        Distance(current_pos, remaining[i])
                            <= Distance(current_pos, remaining[j])
                 /\ \A j \in (i + 1)..Len(remaining) :
                        Distance(current_pos, remaining[j])
                            > Distance(current_pos, remaining[i])
    IN  remaining[k]

\* min(remaining, key=...): the first element whose key is minimal.
Nearest(remaining, current_pos) ==
    LET k == CHOOSE i \in DOMAIN remaining :
                 /\ \A j \in DOMAIN remaining :
                        Distance(current_pos, remaining[i])
                            <= Distance(current_pos, remaining[j])
                 /\ \A j \in 1..(i - 1) :
                        Distance(current_pos, remaining[j])
                            > Distance(current_pos, remaining[i])
    IN  remaining[k]

\* The "while remaining" loop of nearest_neighbor_route.
RECURSIVE NearestNeighborLoop(_, _, _)
NearestNeighborLoop(optimized, remaining, current_pos) ==
    IF remaining = <<>>
    THEN optimized
    ELSE Bind(Nearest(remaining, current_pos),
              LAMBDA nearest :
                  Bind(<<Append(optimized, nearest),
                         ListRemove(remaining, nearest)>>,
                       LAMBDA a : NearestNeighborLoop(a[1], a[2],
                                                      nearest.coordinates)))

nearest_neighbor_route(stops) ==
    Bind(stops,
         LAMBDA list :
             IF Len(list) <= 1
             THEN list
             ELSE NearestNeighborLoop(<<>>, list, depot))

DepotStart ==
    [stop_type |-> "depot_start", address |-> "Depot - Start",
     coordinates |-> depot, type |-> "depot", size |-> "depot"]

DepotEnd ==
    [stop_type |-> "depot_end", address |-> "Depot - Return",
     coordinates |-> depot, type |-> "depot", size |-> "depot"]

\* The items of the load after the loop of lines 153-154 (the dicts are
\* shared with the caller's lists, so the caller sees the new key).
Geocoded(load) == [i \in DOMAIN load |-> WithCoordinates(load[i])]

\* Variant of optimize_route_order: the closing depot stop is not appended.
optimize_route_order_no_return(load) ==
    IF load = <<>>
    THEN <<>>
    ELSE LET items == Geocoded(load)
             pickups == SelectSeq(items, LAMBDA x : x.type = "pickup")
             deliveries == SelectSeq(items, LAMBDA x : x.type = "delivery")
             optimized_pickups == nearest_neighbor_route(pickups)
             optimized_deliveries == nearest_neighbor_route(deliveries)
         IN  <<DepotStart>> \o optimized_pickups \o optimized_deliveries

\* Variant of optimize_route_order: the deliveries are visited before the
\* pickups.
optimize_route_order_deliveries_first(load) ==
    IF load = <<>>
    THEN <<>>
    ELSE LET items == Geocoded(load)
             pickups == SelectSeq(items, LAMBDA x : x.type = "pickup")
             deliveries == SelectSeq(items, LAMBDA x : x.type = "delivery")
             optimized_pickups == nearest_neighbor_route(pickups)
             optimized_deliveries == nearest_neighbor_route(deliveries)
         IN  <<DepotStart>> \o optimized_deliveries \o optimized_pickups
                 \o <<DepotEnd>>

\* Variant of optimize_route_order: no early return for the empty load.
optimize_route_order_no_empty_check(load) ==
    LET items == Geocoded(load)
        pickups == SelectSeq(items, LAMBDA x : x.type = "pickup")
        deliveries == SelectSeq(items, LAMBDA x : x.type = "delivery")
        optimized_pickups == nearest_neighbor_route(pickups)
        optimized_deliveries == nearest_neighbor_route(deliveries)
    IN  <<DepotStart>> \o optimized_pickups \o optimized_deliveries
            \o <<DepotEnd>>

optimize_route_order(load) ==
    IF load = <<>>
    THEN <<>>
    ELSE Bind(Geocoded(load),
              LAMBDA items :
                  LET pickups ==
                          SelectSeq(items, LAMBDA x : x.type = "pickup")
                      deliveries ==
                          SelectSeq(items, LAMBDA x : x.type = "delivery")
                      optimized_pickups == nearest_neighbor_route(pickups)
                      optimized_deliveries ==
                          nearest_neighbor_route(deliveries)
                  IN  <<DepotStart>> \o optimized_pickups
                          \o optimized_deliveries \o <<DepotEnd>>)

----------------------------------------------------------------------------
(* calculate_route_metrics *)

PickupServiceTime == 30 * 200     \* 30 minutes
\* Variant of DeliveryServiceTime: a delivery is charged like a pickup.
DeliveryServiceTimeAsPickup == 30 * 200
DeliveryServiceTime == 20 * 200   \* 20 minutes
TravelTimePerDistance == 5        \* 2.5 minutes per mile

\* The loop "for i in range(len(route) - 1)" from index i on (1-based).
RECURSIVE MetricsLoop(_, _, _, _)
MetricsLoop(route, i, total_distance, total_time) ==
    IF i > Len(route) - 1
    THEN [total_distance |-> total_distance, total_time |-> total_time]
    ELSE LET distance == Distance(route[i].coordinates, route[i + 1])
             service == IF route[i + 1].type = "pickup"
                            THEN PickupServiceTime
                        ELSE IF route[i + 1].type = "delivery"
                            THEN DeliveryServiceTime
                        ELSE 0
         IN  Bind(<<total_distance + distance,
                    total_time + service + distance * TravelTimePerDistance>>,
                  LAMBDA a : MetricsLoop(route, i + 1, a[1], a[2]))

\* Variant of calculate_route_metrics: the first leg is left out.
calculate_route_metrics_skip_first_leg(route) == MetricsLoop(route, 2, 0, 0)

calculate_route_metrics(route) == MetricsLoop(route, 1, 0, 0)

\* "distance, time" before the first call of calculate_route_metrics.
NoMetrics == <<>>

\* round(time, 0): to the nearest minute, a half going to the even minute.
RoundMinutes(t) ==
    LET q == t \div 200
        r == t % 200
    IN  IF r < 100 THEN q
        ELSE IF r > 100 THEN q + 1
        ELSE IF q % 2 = 0 THEN q ELSE q + 1

CountType(route, t) == Len(SelectSeq(route, LAMBDA s : s.type = t))

\* f"{config['small']}S+{config['medium']}M+{config['large']}L"
ConfigLabel(cfg) ==
    ToString(cfg.small) \o "S+" \o ToString(cfg.medium) \o "M+"
        \o ToString(cfg.large) \o "L"

\* The dict appended to trucks (lines 300-308).
TruckRecord(id, cfg, route) ==
    LET m == calculate_route_metrics(route)
    IN  [truck_id |-> "ROUTE_" \o ToString(id),
         config |-> ConfigLabel(cfg),
         route |-> route,
         total_distance |-> m.total_distance,
         total_time |-> RoundMinutes(m.total_time),
         pickup_count |-> CountType(route, "pickup"),
         delivery_count |-> CountType(route, "delivery")]

----------------------------------------------------------------------------
(* TFPSmartScheduler (src/tfp_smart_scheduler.py) *)

warehouse == <<413000, -960000>>

\* Variant of max_deliveries_per_day: one delivery more a day.
max_deliveries_per_day_five == 4 + 1

max_deliveries_per_day == 4

\* Six entries of the ten of the scheduler's zip table.
scheduler_zip_coords ==
    [z \in {"68104", "68111", "68134", "68106", "68127", "68137"} |->
        CASE z = "68104" -> <<413114, -959208>>
          [] z = "68111" -> <<413456, -959017>>
          [] z = "68134" -> <<412072, -961003>>
          [] z = "68106" -> <<412033, -959778>>
          [] z = "68127" -> <<411544, -960142>>
          [] z = "68137" -> <<411836, -958975>>]

scheduler_get_coordinates(address) ==
    IF address \in DOMAIN scheduler_zip_coords
    THEN scheduler_zip_coords[address]
    ELSE warehouse

\* geopy's great_circle(p, q).miles for the coordinates above, in 1/100
\* mile (sphere of radius 6371.009 km).
great_circle(p, q) ==
    LET pair == {p, q}
        W == warehouse
        A == <<413114, -959208>>
        B == <<413456, -959017>>
        C == <<412072, -961003>>
        E == <<412033, -959778>>
        G == <<411544, -960142>>
        H == <<411836, -958975>>
    IN  CASE p = q -> 0
          [] pair = {W, A} -> 419
          [] pair = {W, B} -> 600
          [] pair = {W, C} -> 826
          [] pair = {W, E} -> 678
          [] pair = {W, G} -> 1009
          [] pair = {W, H} -> 965
          [] pair = {A, B} -> 256
          [] pair = {A, C} -> 1178
          [] pair = {A, E} -> 803
          [] pair = {A, G} -> 1188
          [] pair = {A, H} -> 891
          [] pair = {B, C} -> 1406
          [] pair = {B, E} -> 1060
          [] pair = {B, G} -> 1445
          [] pair = {B, H} -> 1120
          [] pair = {C, E} -> 637
          [] pair = {C, G} -> 578
          [] pair = {C, H} -> 1067
          [] pair = {E, G} -> 387
          [] pair = {E, H} -> 439
          [] pair = {G, H} -> 640

\* The dates and ranks a preference row can carry.
Dates == {"2025-01-06", "2025-01-07"}

\* The dates a schedule is asked for.  The rows range over both dates and
\* the scheduler treats a date only by equality, so one of them stands for
\* either.
TargetDates == {"2025-01-06"}
Ranks == 1..3

\* target_date before the call.
NoDate == ""

\* The client of the i-th row of the preference CSV: name and address.
\* The first client has two rows among the first three.
RowClient(i) ==
    LET book == <<[name |-> "John Smith", address |-> "68104"],
                  [name |-> "Mary Johnson", address |-> "68111"],
                  [name |-> "John Smith", address |-> "68104"],
                  [name |-> "Bob Wilson", address |-> "68134"],
                  [name |-> "Lisa Brown", address |-> "68106"],
                  [name |-> "Tom Davis", address |-> "68127"],
                  [name |-> "Sarah Miller", address |-> "68137"]>>
    IN  book[((i - 1) % Len(book)) + 1]

\* The tables load_client_preferences can return for a CSV of n rows: the
\* index is the RangeIndex of read_csv, lat and lon come from the address.
PreferenceTables(n) ==
    {[i \in 1..n |->
        [index |-> i - 1,
         client_name |-> RowClient(i).name,
         address |-> RowClient(i).address,
         preferred_date |-> dt[i],
         preference_rank |-> rk[i],
         lat |-> scheduler_get_coordinates(RowClient(i).address)[1],
         lon |-> scheduler_get_coordinates(RowClient(i).address)[2]]] :
        dt \in [1..n -> Dates], rk \in [1..n -> Ranks]}

\* The tables of six rows of six different clients, all for the first date,
\* with any ranks.
SixClientTables ==
    LET book == <<[name |-> "John Smith", address |-> "68104"],
                  [name |-> "Mary Johnson", address |-> "68111"],
                  [name |-> "Bob Wilson", address |-> "68134"],
                  [name |-> "Lisa Brown", address |-> "68106"],
                  [name |-> "Tom Davis", address |-> "68127"],
                  [name |-> "Sarah Miller", address |-> "68137"]>>
    IN  {[i \in 1..6 |->
            [index |-> i - 1,
             client_name |-> book[i].name,
             address |-> book[i].address,
             preferred_date |-> "2025-01-06",
             preference_rank |-> rk[i],
             lat |-> scheduler_get_coordinates(book[i].address)[1],
             lon |-> scheduler_get_coordinates(book[i].address)[2]]] :
            rk \in [1..6 -> Ranks]}

\* DataFrame.drop(label) / a table without its k-th row.
DropRow(rows, k) ==
    SubSeq(rows, 1, k - 1) \o SubSeq(rows, k + 1, Len(rows))

\* DataFrame.sort_values('preference_rank'): the default sort kind is not
\* stable, rows of equal rank can come out in any order.  The set of the
\* tables the call can return.
\* Variant of sort_values: the rows are left in the order of the table.
sort_values_unsorted(rows) == {rows}

RECURSIVE sort_values(_)
sort_values(rows) ==
    IF rows = <<>>
    THEN {<<>>}
    ELSE LET lowest == {i \in DOMAIN rows :
                           \A j \in DOMAIN rows :
                               rows[i].preference_rank
                                   <= rows[j].preference_rank}
         IN  UNION {{<<rows[i]>> \o rest :
                        rest \in sort_values(DropRow(rows, i))} :
                    i \in lowest}

\* The loop "for _, request in date_requests.iterrows()" (lines 68-76).
RECURSIVE ScheduleLoop(_, _, _)
ScheduleLoop(date_requests, scheduled, scheduled_clients) ==
    IF date_requests = <<>> \/ Len(scheduled) >= max_deliveries_per_day
    THEN scheduled
    ELSE LET request == Head(date_requests)
         IN  IF request.client_name \notin scheduled_clients
             THEN ScheduleLoop(Tail(date_requests),
                               Append(scheduled, request),
                               scheduled_clients \cup {request.client_name})
             ELSE ScheduleLoop(Tail(date_requests), scheduled,
                               scheduled_clients)

\* distances.idxmin(): the first row whose distance is minimal.
NearestRow(remaining, current_location) ==
    CHOOSE i \in DOMAIN remaining :
        /\ \A j \in DOMAIN remaining :
               great_circle(current_location,
                            <<remaining[i].lat, remaining[i].lon>>)
                   <= great_circle(current_location,
                                   <<remaining[j].lat, remaining[j].lon>>)
        /\ \A j \in 1..(i - 1) :
               great_circle(current_location,
                            <<remaining[j].lat, remaining[j].lon>>)
                   > great_circle(current_location,
                                  <<remaining[i].lat, remaining[i].lon>>)

\* The "while len(remaining) > 0" loop of optimize_delivery_route.
RECURSIVE DeliveryRouteLoop(_, _, _)
DeliveryRouteLoop(optimized_order, remaining, current_location) ==
    IF remaining = <<>>
    THEN optimized_order
    ELSE LET nearest_idx == NearestRow(remaining, current_location)
             nearest_delivery == remaining[nearest_idx]
         IN  DeliveryRouteLoop(Append(optimized_order, nearest_delivery),
                               DropRow(remaining, nearest_idx),
                               <<nearest_delivery.lat, nearest_delivery.lon>>)

optimize_delivery_route(deliveries_df) ==
    IF Len(deliveries_df) <= 1
    THEN deliveries_df
    ELSE DeliveryRouteLoop(<<>>, deliveries_df, warehouse)

\* client_prefs[client_prefs['preferred_date'] == target_date]
DateRequests(prefs, date) ==
    SelectSeq(prefs, LAMBDA r : r.preferred_date = date)

\* The tables schedule_daily_deliveries can return, one for each order
\* sort_values can produce; <<>> is the empty DataFrame.
schedule_daily_deliveries(prefs, date) ==
    IF DateRequests(prefs, date) = <<>>
    THEN {<<>>}
    ELSE {optimize_delivery_route(ScheduleLoop(date_requests, <<>>, {})) :
             date_requests \in sort_values(DateRequests(prefs, date))}

----------------------------------------------------------------------------
(* TFPSmartScheduler: the daily schedule of deliveries and donor pickups *)

\* The value None, and a schedule variable that holds no schedule yet.
None == [none |-> TRUE]
NoSchedule == None

\* Variant of max_pickups: one pickup less is selected.
max_pickups_two == 3 - 1

\* The argument max_pickups=3 of select_donor_pickups_on_route.
max_pickups == 3

\* The donor of the i-th row of the donor CSV.
RowDonor(i) ==
    LET book == <<[name |-> "Jennifer Adams", address |-> "68104"],
                  [name |-> "Robert Clark", address |-> "68111"],
                  [name |-> "Michelle White", address |-> "68134"],
                  [name |-> "James Martinez", address |-> "68106"],
                  [name |-> "Linda Rodriguez", address |-> "68127"]>>
    IN  book[((i - 1) % Len(book)) + 1]

\* The table load_donor_pickups returns for a CSV of n rows.
DonorTable(n) ==
    [i \in 1..n |->
        [index |-> i - 1,
         donor_name |-> RowDonor(i).name,
         address |-> RowDonor(i).address,
         lat |-> scheduler_get_coordinates(RowDonor(i).address)[1],
         lon |-> scheduler_get_coordinates(RowDonor(i).address)[2]]]

\* [row['lat'], row['lon']]
LocationOf(row) == <<row.lat, row.lon>>

\* A donor row with the column distance_from_last_delivery (lines 127-128).
WithDistance(row, last_delivery_location) ==
    [index |-> row.index, donor_name |-> row.donor_name,
     address |-> row.address, lat |-> row.lat, lon |-> row.lon,
     distance_from_last_delivery |->
         great_circle(last_delivery_location, LocationOf(row))]

\* DataFrame.sort_values('distance_from_last_delivery'): the set of the
\* tables the unstable sort can return.
RECURSIVE sort_by_distance(_)
sort_by_distance(rows) ==
    IF rows = <<>>
    THEN {<<>>}
    ELSE LET lowest == {i \in DOMAIN rows :
                           \A j \in DOMAIN rows :
                               rows[i].distance_from_last_delivery
                                   <= rows[j].distance_from_last_delivery}
         IN  UNION {{<<rows[i]>> \o rest :
                        rest \in sort_by_distance(DropRow(rows, i))} :
                    i \in lowest}

\* optimize_pickup_route: the loop is the loop of optimize_delivery_route,
\* started at start_location.
optimize_pickup_route(pickups_df, start_location) ==
    IF Len(pickups_df) <= 1
    THEN pickups_df
    ELSE DeliveryRouteLoop(<<>>, pickups_df, start_location)

\* The tables select_donor_pickups_on_route can return.
select_donor_pickups_on_route(donors, last_delivery_location) ==
    IF donors = <<>>
    THEN {<<>>}
    ELSE LET donor_pickups_with_dist ==
                 [i \in DOMAIN donors |->
                     WithDistance(donors[i], last_delivery_location)]
         IN  {optimize_pickup_route(
                  SubSeq(sorted, 1, Min(max_pickups, Len(sorted))),
                  last_delivery_location) :
                  sorted \in sort_by_distance(donor_pickups_with_dist)}

\* round(total_distance, 1): from 1/100 mile to 1/10 mile, a half going to
\* the even tenth.
RoundTenth(d) ==
    LET q == d \div 10
        r == d % 10
    IN  IF r < 5 THEN q
        ELSE IF r > 5 THEN q + 1
        ELSE IF q % 2 = 0 THEN q ELSE q + 1

\* The loops of calculate_total_distance over one table: the distance added
\* and the location reached, from current_location.
RECURSIVE DistanceThrough(_, _, _)
DistanceThrough(rows, total_distance, current_location) ==
    IF rows = <<>>
    THEN <<total_distance, current_location>>
    ELSE DistanceThrough(Tail(rows),
                         total_distance
                             + great_circle(current_location,
                                            LocationOf(Head(rows))),
                         LocationOf(Head(rows)))

\* Variant of calculate_total_distance: the leg back to the warehouse is
\* left out.
calculate_total_distance_no_return(delivery_rows, pickup_rows) ==
    LET after_deliveries == DistanceThrough(delivery_rows, 0, warehouse)
        after_pickups == DistanceThrough(pickup_rows, after_deliveries[1],
                                         after_deliveries[2])
    IN  RoundTenth(after_pickups[1])

\* calculate_total_distance, in 1/10 mile.
calculate_total_distance(delivery_rows, pickup_rows) ==
    LET after_deliveries == DistanceThrough(delivery_rows, 0, warehouse)
        after_pickups == DistanceThrough(pickup_rows, after_deliveries[1],
                                         after_deliveries[2])
    IN  RoundTenth(after_pickups[1]
                       + great_circle(after_pickups[2], warehouse))

\* The dict returned when no delivery is scheduled (lines 175-182).
EmptySchedule(date) ==
    [date |-> date, deliveries |-> <<>>, pickups |-> <<>>,
     total_distance |-> 0,
     route_summary |-> "No deliveries scheduled for this date"]

\* f"{len(deliveries)} deliveries + {len(pickups)} pickups"
RouteSummary(delivery_rows, pickup_rows) ==
    ToString(Len(delivery_rows)) \o " deliveries + "
        \o ToString(Len(pickup_rows)) \o " pickups"

\* The dicts create_daily_schedule can return for the deliveries scheduled
\* (lines 184-202).
ScheduleFor(donors, date, scheduled_deliveries) ==
    LET last_delivery == scheduled_deliveries[Len(scheduled_deliveries)]
    IN  {[date |-> date,
          deliveries |-> scheduled_deliveries,
          pickups |-> scheduled_pickups,
          total_distance |->
              calculate_total_distance(scheduled_deliveries,
                                       scheduled_pickups),
          route_summary |->
              RouteSummary(scheduled_deliveries, scheduled_pickups)] :
            scheduled_pickups \in
                select_donor_pickups_on_route(donors,
                                              LocationOf(last_delivery))}

\* Variant of create_daily_schedule: without deliveries the pickups are
\* still selected, from the warehouse.
create_daily_schedule_pickups_anyway(prefs, donors, date) ==
    UNION {IF scheduled_deliveries = <<>>
           THEN {[date |-> date,
                  deliveries |-> <<>>,
                  pickups |-> scheduled_pickups,
                  total_distance |->
                      calculate_total_distance(<<>>, scheduled_pickups),
                  route_summary |-> RouteSummary(<<>>, scheduled_pickups)] :
                    scheduled_pickups \in
                        select_donor_pickups_on_route(donors, warehouse)}
           ELSE ScheduleFor(donors, date, scheduled_deliveries) :
              scheduled_deliveries \in schedule_daily_deliveries(prefs, date)}

\* The dicts create_daily_schedule can return.
create_daily_schedule(prefs, donors, date) ==
    UNION {IF scheduled_deliveries = <<>>
           THEN {EmptySchedule(date)}
           ELSE ScheduleFor(donors, date, scheduled_deliveries) :
              scheduled_deliveries \in schedule_daily_deliveries(prefs, date)}

\* pd.concat([...], ignore_index=True): the rows are numbered again.
IgnoreIndex(rows) ==
    [i \in DOMAIN rows |-> [rows[i] EXCEPT !.index = i - 1]]

\* get_available_clients_for_date (lines 226-242).
get_available_clients_for_date(prefs, date, exclude_scheduled, include_all_clients) ==
    LET available == IF include_all_clients
                     THEN prefs
                     ELSE DateRequests(prefs, date)
        scheduled_clients == {exclude_scheduled[i].client_name :
                                 i \in DOMAIN exclude_scheduled}
    IN  SelectSeq(available,
                  LAMBDA r : r.client_name \notin scheduled_clients)

\* The clients suggest_4th_delivery tests (lines 249-254).
AvailableClients(prefs, current_deliveries, date) ==
    LET wanting == get_available_clients_for_date(prefs, date,
                                                  current_deliveries, FALSE)
    IN  IF wanting /= <<>>
        THEN wanting
        ELSE get_available_clients_for_date(prefs, date, current_deliveries,
                                            TRUE)

\* optimized_test of the loop of suggest_4th_delivery for one client row.
OptimizedTest(current_deliveries, client) ==
    optimize_delivery_route(IgnoreIndex(Append(current_deliveries, client)))

\* Variant of suggest_4th_delivery: the first available client is
\* suggested.
suggest_4th_delivery_first_available(prefs, current_deliveries, date) ==
    IF Len(current_deliveries) >= 4
    THEN None
    ELSE LET available_clients ==
                 AvailableClients(prefs, current_deliveries, date)
         IN  IF available_clients = <<>>
             THEN None
             ELSE LET best_route == OptimizedTest(current_deliveries,
                                                  available_clients[1])
                      best_distance == calculate_total_distance(best_route,
                                                                <<>>)
                  IN  [suggested_client |-> available_clients[1],
                       new_total_distance |-> best_distance,
                       optimized_route |-> best_route,
                       distance_increase |->
                           best_distance
                               - calculate_total_distance(current_deliveries,
                                                          <<>>)]

\* suggest_4th_delivery: the loop keeps the first client whose test
\* distance is strictly below all earlier ones.
suggest_4th_delivery(prefs, current_deliveries, date) ==
    IF Len(current_deliveries) >= 4
    THEN None
    ELSE LET available_clients ==
                 AvailableClients(prefs, current_deliveries, date)
             test_distance ==
                 [i \in DOMAIN available_clients |->
                     calculate_total_distance(
                         OptimizedTest(current_deliveries,
                                       available_clients[i]), <<>>)]
         IN  IF available_clients = <<>>
             THEN None
             ELSE LET best == CHOOSE i \in DOMAIN available_clients :
                                  /\ \A j \in DOMAIN available_clients :
                                         test_distance[i] <= test_distance[j]
                                  /\ \A j \in 1..(i - 1) :
                                         test_distance[j] > test_distance[i]
                      best_route == OptimizedTest(current_deliveries,
                                                  available_clients[best])
                  IN  [suggested_client |-> available_clients[best],
                       new_total_distance |-> test_distance[best],
                       optimized_route |-> best_route,
                       distance_increase |->
                           test_distance[best]
                               - calculate_total_distance(current_deliveries,
                                                          <<>>)]

\* The rows best_pref can be (lines 291-308): a row of lowest rank of the
\* client for the date, or of the client for any date, moved to the date.
BestPrefs(prefs, client_name, date) ==
    LET client_request ==
            SelectSeq(prefs, LAMBDA r : /\ r.client_name = client_name
                                        /\ r.preferred_date = date)
        client_any_date ==
            SelectSeq(prefs, LAMBDA r : r.client_name = client_name)
    IN  IF client_request /= <<>>
        THEN {sorted[1] : sorted \in sort_values(client_request)}
        ELSE IF client_any_date = <<>>
        THEN {}
        ELSE {[sorted[1] EXCEPT !.preferred_date = date] :
                 sorted \in sort_values(client_any_date)}

\* The values add_manual_delivery can return.
add_manual_delivery(prefs, donors, current_schedule, client_name, date) ==
    IF BestPrefs(prefs, client_name, date) = {}
    THEN {None}
    ELSE UNION {
           LET new_deliveries ==
                   IgnoreIndex(Append(current_schedule.deliveries, best_pref))
               optimized_deliveries == optimize_delivery_route(new_deliveries)
               last_delivery ==
                   optimized_deliveries[Len(optimized_deliveries)]
           IN  {[date |-> current_schedule.date,
                 deliveries |-> optimized_deliveries,
                 pickups |-> optimized_pickups,
                 total_distance |->
                     calculate_total_distance(optimized_deliveries,
                                              optimized_pickups),
                 route_summary |->
                     RouteSummary(optimized_deliveries, optimized_pickups),
                 added_client |-> client_name] :
                   optimized_pickups \in
                       select_donor_pickups_on_route(
                           donors, LocationOf(last_delivery))} :
           best_pref \in BestPrefs(prefs, client_name, date)}

----------------------------------------------------------------------------
(* Values of the variables of a part of the program that is not running *)

DayIdle ==
    /\ donor_pickups = <<>>
    /\ daily_schedule = NoSchedule
    /\ suggestion = None
    /\ schedules = <<>>
    /\ day_index = 1
    /\ manual_adds = 0

TruckIdle ==
    /\ dts_deliveries = <<>>
    /\ dts_pickups = <<>>
    /\ days = 0
    /\ schedule = <<>>
    /\ delivery_index = 0
    /\ pickup_index = 0
    /\ day = 0
    /\ truck_num = 1

----------------------------------------------------------------------------
(* assign_all_routes *)

\* Variant of RemoveAssigned: only the first request of the load is removed.
RemoveAssignedFirstOnly(reqs, load) ==
    IF load = <<>> THEN reqs
    ELSE SelectSeq(reqs, LAMBDA r : r.id /= Head(load).id)

\* Variant of RemoveAssigned: as many requests as the load holds are taken
\* off the front of the pending list.
RemoveAssignedByCount(reqs, load) ==
    SubSeq(reqs, Len(load) + 1, Len(reqs))

\* Variant of RemoveAssigned: every request of the size of a loaded request
\* is removed.
RemoveAssignedBySize(reqs, load) ==
    SelectSeq(reqs, LAMBDA r : \A k \in DOMAIN load : load[k].size /= r.size)

\* for item in truck_load: requests = [r for r in requests if r['id'] != item['id']]
RECURSIVE RemoveAssigned(_, _)
RemoveAssigned(reqs, load) ==
    IF load = <<>> THEN reqs
    ELSE Bind(<<SelectSeq(reqs, LAMBDA r : r.id /= Head(load).id),
                Tail(load)>>,
              LAMBDA a : RemoveAssigned(a[1], a[2]))

\* The address of the i-th row of the CSV.
RowAddress(i) ==
    LET book == <<"68104", "68108", "unknown", "68111", "68114">>
    IN  book[((i - 1) % Len(book)) + 1]

\* The request lists assign_all_routes can build from a CSV of n rows
\* (lines 275-282): id is row.name, the position of the row.
Pools(n) ==
    {[i \in 1..n |-> [id |-> i - 1, address |-> RowAddress(i),
                      size |-> sz[i], type |-> ty[i]]] :
        sz \in [1..n -> Sizes], ty \in [1..n -> Types]}

Init ==
    /\ \E n \in 0..MaxReq : df \in Pools(n)
    /\ requests = df
    /\ truck_load = <<>>
    /\ config = NoConfig
    /\ optimized_route = <<>>
    /\ trucks = <<>>
    /\ truck_id = 1
    /\ loads = <<>>
    /\ metrics = NoMetrics
    /\ client_prefs = <<>>
    /\ target_date = NoDate
    /\ daily_deliveries = <<>>
    /\ DayIdle
    /\ TruckIdle
    /\ pc = "loop"

\* while requests: false
Exit ==
    /\ pc = "loop"
    /\ requests = <<>>
    /\ pc' = "done"
    /\ UNCHANGED <<df, requests, truck_load, config, optimized_route,
                   trucks, truck_id, loads, metrics, schedVars, dayVars,
                   truckVars>>

\* truck_load, config = self.pack_truck(requests), a load being returned
Pack ==
    /\ pc = "loop"
    /\ requests /= <<>>
    /\ \E r \in {pack_truck(requests)} :
          /\ r.truck_load /= <<>>
          /\ truck_load' = r.truck_load
          /\ config' = r.config
          /\ requests' = r.requests
          /\ loads' = Append(loads, r.truck_load)
    /\ pc' = "packed"
    /\ UNCHANGED <<df, optimized_route, trucks, truck_id, metrics,
                   schedVars, dayVars,
                   truckVars>>

\* truck_load, config = self.pack_truck(requests); if not truck_load: break
Break ==
    /\ pc = "loop"
    /\ requests /= <<>>
    /\ \E r \in {pack_truck(requests)} :
          /\ r.truck_load = <<>>
          /\ truck_load' = r.truck_load
          /\ config' = r.config
          /\ requests' = r.requests
    /\ pc' = "done"
    /\ UNCHANGED <<df, optimized_route, trucks, truck_id, loads, metrics,
                   schedVars, dayVars,
                   truckVars>>

\* optimize_route_order, calculate_route_metrics, trucks.append, truck_id += 1
Route ==
    /\ pc = "packed"
    /\ optimized_route' = optimize_route_order(truck_load)
    /\ truck_load' = Geocoded(truck_load)
    /\ requests' = [i \in DOMAIN requests |->
                        IF requests[i].id \in IdsOf(truck_load)
                        THEN WithCoordinates(requests[i])
                        ELSE requests[i]]
    /\ metrics' = calculate_route_metrics(optimized_route')
    /\ trucks' = Append(trucks, TruckRecord(truck_id, config,
                                            optimized_route'))
    /\ truck_id' = truck_id + 1
    /\ pc' = "routed"
    /\ UNCHANGED <<df, config, loads, schedVars, dayVars,
                   truckVars>>

\* Remove assigned requests (lines 312-314)
Remove ==
    /\ pc = "routed"
    /\ requests' = RemoveAssigned(requests, truck_load)
    /\ pc' = "loop"
    /\ UNCHANGED <<df, truck_load, config, optimized_route, trucks,
                   truck_id, loads, metrics, schedVars, dayVars,
                   truckVars>>

Next == Exit \/ Pack \/ Break \/ Route \/ Remove

Spec == Init /\ [][Next]_vars

\* The loop runs on one thread with nothing to wait for: an enabled step
\* is taken.
LiveSpec == Init /\ [][Next]_vars /\ WF_vars(Next)

----------------------------------------------------------------------------
(* optimize_route_order as a function of an arbitrary load *)

\* The loads of n requests with pairwise distinct ids.
Loads(n) ==
    {[i \in 1..n |-> [id |-> i - 1, address |-> ad[i],
                      size |-> "small", type |-> ty[i]]] :
        ad \in [1..n -> Addresses], ty \in [1..n -> Types]}

InitSeq ==
    /\ \E n \in 0..MaxLoad : truck_load \in Loads(n)
    /\ df = <<>>
    /\ requests = <<>>
    /\ config = NoConfig
    /\ optimized_route = <<>>
    /\ trucks = <<>>
    /\ truck_id = 1
    /\ loads = <<>>
    /\ metrics = NoMetrics
    /\ client_prefs = <<>>
    /\ target_date = NoDate
    /\ daily_deliveries = <<>>
    /\ DayIdle
    /\ TruckIdle
    /\ pc = "seq_call"

\* route = assigner.optimize_route_order(truck_load)
SeqCall ==
    /\ pc = "seq_call"
    /\ optimized_route' = optimize_route_order(truck_load)
    /\ truck_load' = Geocoded(truck_load)
    /\ pc' = "seq_ret"
    /\ UNCHANGED <<df, requests, config, trucks, truck_id, loads, metrics,
                   schedVars, dayVars,
                   truckVars>>

NextSeq == SeqCall

SeqSpec == InitSeq /\ [][NextSeq]_vars

----------------------------------------------------------------------------
(* nearest_neighbor_route as a function of an arbitrary list of stops *)

StopCoordinates ==
    {depot, zip_coords["68104"], zip_coords["68111"], zip_coords["68108"],
     NearPoint, FarPoint}

\* The lists of n stops with pairwise distinct ids, each with coordinates.
Stops(n) ==
    {[i \in 1..n |-> [id |-> i - 1, address |-> "stop", size |-> "small",
                      type |-> "pickup", coordinates |-> co[i]]] :
        co \in [1..n -> StopCoordinates]}

InitNN ==
    /\ \E n \in 0..MaxLoad : truck_load \in Stops(n)
    /\ df = <<>>
    /\ requests = <<>>
    /\ config = NoConfig
    /\ optimized_route = <<>>
    /\ trucks = <<>>
    /\ truck_id = 1
    /\ loads = <<>>
    /\ metrics = NoMetrics
    /\ client_prefs = <<>>
    /\ target_date = NoDate
    /\ daily_deliveries = <<>>
    /\ DayIdle
    /\ TruckIdle
    /\ pc = "nn_call"

\* route = assigner.nearest_neighbor_route(stops)
NNCall ==
    /\ pc = "nn_call"
    /\ optimized_route' = nearest_neighbor_route(truck_load)
    /\ pc' = "nn_ret"
    /\ UNCHANGED <<df, requests, truck_load, config, trucks, truck_id, loads,
                   metrics, schedVars, dayVars,
                   truckVars>>

NextNN == NNCall

NNSpec == InitNN /\ [][NextNN]_vars

----------------------------------------------------------------------------
(* calculate_route_metrics as a function of an arbitrary route *)

RouteCoordinates == {depot, LegPoint, TurnPoint}

StopTypes == Types \cup {"depot"}

\* The routes of n stops: any type at any of the coordinates.
Routes(n) ==
    {[i \in 1..n |-> [type |-> ty[i], coordinates |-> co[i]]] :
        ty \in [1..n -> StopTypes], co \in [1..n -> RouteCoordinates]}

InitMetrics ==
    /\ \E n \in 0..MaxRoute : optimized_route \in Routes(n)
    /\ df = <<>>
    /\ requests = <<>>
    /\ truck_load = <<>>
    /\ config = NoConfig
    /\ trucks = <<>>
    /\ truck_id = 1
    /\ loads = <<>>
    /\ metrics = NoMetrics
    /\ client_prefs = <<>>
    /\ target_date = NoDate
    /\ daily_deliveries = <<>>
    /\ DayIdle
    /\ TruckIdle
    /\ pc = "metrics_call"

\* distance, time = assigner.calculate_route_metrics(route)
MetricsCall ==
    /\ pc = "metrics_call"
    /\ metrics' = calculate_route_metrics(optimized_route)
    /\ pc' = "metrics_ret"
    /\ UNCHANGED <<df, requests, truck_load, config, optimized_route, trucks,
                   truck_id, loads, schedVars, dayVars,
                   truckVars>>

NextMetrics == MetricsCall

MetricsSpec == InitMetrics /\ [][NextMetrics]_vars

----------------------------------------------------------------------------
(* schedule_daily_deliveries on an arbitrary preference table and date *)

InitSched ==
    /\ \/ \E n \in 0..MaxPrefs : client_prefs \in PreferenceTables(n)
       \/ client_prefs \in SixClientTables
    /\ target_date = NoDate
    /\ daily_deliveries = <<>>
    /\ DayIdle
    /\ TruckIdle
    /\ df = <<>>
    /\ requests = <<>>
    /\ truck_load = <<>>
    /\ config = NoConfig
    /\ optimized_route = <<>>
    /\ trucks = <<>>
    /\ truck_id = 1
    /\ loads = <<>>
    /\ metrics = NoMetrics
    /\ pc = "sched_call"

\* scheduler.schedule_daily_deliveries(client_prefs, target_date)
ScheduleDaily ==
    /\ pc = "sched_call"
    /\ \E date \in TargetDates :
          /\ target_date' = date
          /\ daily_deliveries' \in schedule_daily_deliveries(client_prefs, date)
    /\ pc' = "sched_ret"
    /\ UNCHANGED <<routeVars, client_prefs, dayVars, truckVars>>

NextSched == ScheduleDaily

SchedSpec == InitSched /\ [][NextSched]_vars

----------------------------------------------------------------------------
(* DailyTruckScheduler.create_daily_schedule ("src/Phase 3/daily_truck_scheduler.py") *)

trucks_per_day == 2

\* The most deliveries, and the most pickups, given to one truck: the
\* literal of min(3, ...).
PerTruck == 3

\* The values of the argument days: one day leaves requests over, two days
\* are enough for every table up to the bound.
DayCounts == {1, 2}

\* The 'Full Address' column of n rows of one request type.
FullAddresses(kind, n) == [i \in 1..n |-> kind \o " " \o ToString(i)]

\* The rows truck_deliveries or truck_pickups takes from the table, from
\* the index on (lines 43-48 and 51-56).
TruckTake(table, index) ==
    SubSeq(table, index + 1, index + Min(PerTruck, Len(table) - index))

\* The dict appended to schedule (lines 60-68); the date is given as the
\* number of the day after start_date.
TruckEntry(truck_deliveries, truck_pickups) ==
    [date |-> day,
     truck_id |-> "Daily_Truck_" \o ToString(truck_num),
     deliveries |-> Len(truck_deliveries),
     pickups |-> Len(truck_pickups),
     total_stops |-> Len(truck_deliveries) + Len(truck_pickups),
     delivery_addresses |-> truck_deliveries,
     pickup_addresses |-> truck_pickups]

InitTruck ==
    /\ \E nd, np \in 0..MaxPending :
          /\ dts_deliveries = FullAddresses("delivery", nd)
          /\ dts_pickups = FullAddresses("pickup", np)
    /\ days \in DayCounts
    /\ schedule = <<>>
    /\ delivery_index = 0
    /\ pickup_index = 0
    /\ day = 0
    /\ truck_num = 1
    /\ df = <<>>
    /\ requests = <<>>
    /\ truck_load = <<>>
    /\ config = NoConfig
    /\ optimized_route = <<>>
    /\ trucks = <<>>
    /\ truck_id = 1
    /\ loads = <<>>
    /\ metrics = NoMetrics
    /\ client_prefs = <<>>
    /\ target_date = NoDate
    /\ daily_deliveries = <<>>
    /\ DayIdle
    /\ pc = "dts_loop"

\* One pass of "for truck_num in range(1, self.trucks_per_day + 1)" (lines
\* 39-68): the assignments to the truck and the entry of the schedule.
TruckBody ==
    /\ pc = "dts_loop"
    /\ day < days
    /\ \E truck_deliveries \in {TruckTake(dts_deliveries, delivery_index)},
          truck_pickups \in {TruckTake(dts_pickups, pickup_index)} :
          /\ delivery_index' = delivery_index + Len(truck_deliveries)
          /\ pickup_index' = pickup_index + Len(truck_pickups)
          /\ schedule' =
                 IF truck_deliveries /= <<>> \/ truck_pickups /= <<>>
                 THEN Append(schedule,
                             TruckEntry(truck_deliveries, truck_pickups))
                 ELSE schedule

\* A pass after which requests are left: the loops go on.
DtsTruck ==
    /\ TruckBody
    /\ ~(/\ delivery_index' >= Len(dts_deliveries)
         /\ pickup_index' >= Len(dts_pickups))
    /\ truck_num' = IF truck_num = trucks_per_day THEN 1 ELSE truck_num + 1
    /\ day' = IF truck_num = trucks_per_day THEN day + 1 ELSE day
    /\ UNCHANGED <<routeVars, schedVars, dayVars, dts_deliveries, dts_pickups,
                   days, pc>>

\* A pass after which all requests are assigned: return schedule (lines
\* 71-72).
DtsTruckReturn ==
    /\ TruckBody
    /\ delivery_index' >= Len(dts_deliveries)
    /\ pickup_index' >= Len(dts_pickups)
    /\ pc' = "dts_done"
    /\ UNCHANGED <<routeVars, schedVars, dayVars, dts_deliveries, dts_pickups,
                   days, day, truck_num>>

\* The loop over the days is over: return schedule (line 74).
DtsDaysOver ==
    /\ pc = "dts_loop"
    /\ day >= days
    /\ pc' = "dts_done"
    /\ UNCHANGED <<routeVars, schedVars, dayVars, truckVars>>

NextTruck == DtsTruck \/ DtsTruckReturn \/ DtsDaysOver

TruckSpec == InitTruck /\ [][NextTruck]_vars

----------------------------------------------------------------------------
(* create_daily_schedule run for one date after the other over the same
   preference and donor data, as the loop of __main__ runs it *)

\* The dates of the loop, in its order.
LoopDates == <<"2025-01-06", "2025-01-07">>

InitDay ==
    /\ \E n \in 0..MaxDayPrefs : client_prefs \in PreferenceTables(n)
    /\ \E n \in 0..MaxDonors : donor_pickups = DonorTable(n)
    /\ target_date = NoDate
    /\ daily_deliveries = <<>>
    /\ daily_schedule = NoSchedule
    /\ suggestion = None
    /\ schedules = <<>>
    /\ day_index = 1
    /\ manual_adds = 0
    /\ TruckIdle
    /\ df = <<>>
    /\ requests = <<>>
    /\ truck_load = <<>>
    /\ config = NoConfig
    /\ optimized_route = <<>>
    /\ trucks = <<>>
    /\ truck_id = 1
    /\ loads = <<>>
    /\ metrics = NoMetrics
    /\ pc = "day_loop"

\* daily_schedule = scheduler.create_daily_schedule(target_date)
CreateDaily ==
    /\ pc = "day_loop"
    /\ day_index <= Len(LoopDates)
    /\ target_date' = LoopDates[day_index]
    /\ daily_schedule' \in create_daily_schedule(client_prefs, donor_pickups,
                                                 LoopDates[day_index])
    /\ schedules' = Append(schedules, daily_schedule')
    /\ day_index' = day_index + 1
    /\ UNCHANGED <<routeVars, client_prefs, daily_deliveries, donor_pickups,
                   suggestion, manual_adds, truckVars, pc>>

\* The loop is over.
DayLoopDone ==
    /\ pc = "day_loop"
    /\ day_index > Len(LoopDates)
    /\ pc' = "day_done"
    /\ UNCHANGED <<routeVars, schedVars, dayVars, truckVars>>

NextDay == CreateDaily \/ DayLoopDone

DaySpec == InitDay /\ [][NextDay]_vars

----------------------------------------------------------------------------
(* A day's schedule is created, then deliveries are suggested and added by
   hand *)

\* The clients of the preference data.
ClientBook ==
    <<[name |-> "John Smith", address |-> "68104"],
      [name |-> "Mary Johnson", address |-> "68111"],
      [name |-> "Bob Wilson", address |-> "68134"],
      [name |-> "Lisa Brown", address |-> "68106"],
      [name |-> "Tom Davis", address |-> "68127"],
      [name |-> "Sarah Miller", address |-> "68137"]>>

ClientNames == {ClientBook[i].name : i \in DOMAIN ClientBook}

\* The tables of n rows of n different clients, each with one preference, of
\* rank 1, for any date.
SinglePreferenceTables(n) ==
    {[i \in 1..n |->
        [index |-> i - 1,
         client_name |-> ClientBook[((i - 1) % Len(ClientBook)) + 1].name,
         address |-> ClientBook[((i - 1) % Len(ClientBook)) + 1].address,
         preferred_date |-> dt[i],
         preference_rank |-> 1,
         lat |-> scheduler_get_coordinates(
                     ClientBook[((i - 1) % Len(ClientBook)) + 1].address)[1],
         lon |-> scheduler_get_coordinates(
                     ClientBook[((i - 1) % Len(ClientBook)) + 1].address)[2]]] :
        dt \in [1..n -> Dates]}

InitManual ==
    /\ \E n \in 0..MaxManualPrefs : client_prefs \in SinglePreferenceTables(n)
    /\ \E n \in 0..MaxDonors : donor_pickups = DonorTable(n)
    /\ target_date = NoDate
    /\ daily_deliveries = <<>>
    /\ daily_schedule = NoSchedule
    /\ suggestion = None
    /\ schedules = <<>>
    /\ day_index = 1
    /\ manual_adds = 0
    /\ TruckIdle
    /\ df = <<>>
    /\ requests = <<>>
    /\ truck_load = <<>>
    /\ config = NoConfig
    /\ optimized_route = <<>>
    /\ trucks = <<>>
    /\ truck_id = 1
    /\ loads = <<>>
    /\ metrics = NoMetrics
    /\ pc = "manual_create"

\* schedule = scheduler.create_daily_schedule(date)
CreateForManual ==
    /\ pc = "manual_create"
    /\ \E date \in TargetDates :
          /\ target_date' = date
          /\ daily_schedule' \in create_daily_schedule(client_prefs,
                                                       donor_pickups, date)
    /\ pc' = "manual_ready"
    /\ UNCHANGED <<routeVars, client_prefs, daily_deliveries, donor_pickups,
                   suggestion, schedules, day_index, manual_adds, truckVars>>

\* suggestion = scheduler.suggest_4th_delivery(schedule['deliveries'], date)
Suggest ==
    /\ pc = "manual_ready"
    /\ suggestion' = suggest_4th_delivery(client_prefs,
                                          daily_schedule.deliveries,
                                          target_date)
    /\ pc' = "manual_suggested"
    /\ UNCHANGED <<routeVars, schedVars, donor_pickups, daily_schedule,
                   schedules, day_index, manual_adds, truckVars>>

\* schedule = scheduler.add_manual_delivery(schedule, client_name, date),
\* the schedule being kept when None is returned.
AddManual ==
    /\ pc \in {"manual_ready", "manual_suggested"}
    /\ manual_adds < MaxAdds
    /\ \E client_name \in ClientNames :
          \E new_schedule \in add_manual_delivery(client_prefs, donor_pickups,
                                                  daily_schedule, client_name,
                                                  target_date) :
              daily_schedule' = IF new_schedule = None
                                THEN daily_schedule
                                ELSE new_schedule
    /\ manual_adds' = manual_adds + 1
    /\ pc' = "manual_ready"
    /\ UNCHANGED <<routeVars, schedVars, donor_pickups, suggestion, schedules,
                   day_index, truckVars>>

NextManual == CreateForManual \/ Suggest \/ AddManual

ManualSpec == InitManual /\ [][NextManual]_vars

----------------------------------------------------------------------------
(* Properties of the orchestrator loop and of pack_truck *)

WellFormed(reqs) ==
    \A i \in DOMAIN reqs :
        reqs[i].size \in RecognisedSizes /\ reqs[i].type \in Types

DistinctIds(reqs) ==
    \A i, j \in DOMAIN reqs : reqs[i].id = reqs[j].id => i = j

\* pack_truck has just returned the non-empty load truck_load with config,
\* and requests is still the list it was called with.
JustPacked == pc = "packed"

CountSize(load, s) == Len(SelectSeq(load, LAMBDA r : r.size = s))

\* The number of positions of all emitted loads that hold the request id.
Occurrences(id) ==
    Cardinality(UNION {{<<v, i>> : i \in {j \in DOMAIN loads[v] :
                                              loads[v][j].id = id}} :
                          v \in DOMAIN loads})

\* C1: from a pool whose requests all have a size in {small, medium, large}
\* and a type in {pickup, delivery}, the assign_all loop terminates, and it
\* terminates with the pending pool empty.
C1_Terminates ==
    WellFormed(requests) => <>(pc = "done" /\ requests = <<>>)

C1_Witness ==
    /\ pc = "done"
    /\ requests = <<>>
    /\ WellFormed(df)
    /\ Len(loads) >= 2

\* C2: for a pool with pairwise distinct ids and recognised sizes, a request
\* is in at most one emitted load and at most once in it, a request that is
\* no longer pending is in a load, and when the loop has stopped every
\* request is in exactly one load.
C2_ConsumedExactlyOnce ==
    (DistinctIds(df) /\ WellFormed(df)) =>
        \A r \in Range(df) :
            /\ Occurrences(r.id) <= 1
            /\ r.id \notin IdsOf(requests) => Occurrences(r.id) = 1
            /\ pc = "done" => Occurrences(r.id) = 1

C2_Witness ==
    /\ pc = "done"
    /\ WellFormed(df)
    /\ Len(df) >= 3
    /\ Len(loads) >= 2
    /\ \E v \in DOMAIN loads : Len(loads[v]) >= 2

\* C3: the load pack_truck returns holds, for each size, at most as many
\* requests of that size (pickups and deliveries together) as its
\* configuration has slots for that size.
C3_LoadWithinSlots ==
    JustPacked =>
        \A s \in RecognisedSizes : CountSize(truck_load, s) <= config[s]

\* The small slots bind: three smalls are loaded and a fourth stays behind,
\* with pickups and deliveries sharing the slots.
C3_Witness ==
    /\ JustPacked
    /\ CountSize(truck_load, "small") = 3
    /\ CountSize(requests, "small") = 4
    /\ \E i, j \in DOMAIN truck_load :
           truck_load[i].type = "pickup" /\ truck_load[j].type = "delivery"

ConfigIndex(cfg) == CHOOSE k \in DOMAIN truck_configs : truck_configs[k] = cfg

\* pending = [small pickup, small pickup, medium delivery]
IsFirstFitScenario(reqs) ==
    /\ Len(reqs) = 3
    /\ reqs[1].size = "small" /\ reqs[1].type = "pickup"
    /\ reqs[2].size = "small" /\ reqs[2].type = "pickup"
    /\ reqs[3].size = "medium" /\ reqs[3].type = "delivery"

\* C4: pack_truck returns the first configuration, in the order (3,0,0),
\* (2,1,0), (0,2,0), (0,0,1), that takes any pending request: no earlier
\* configuration has a slot for any pending request, whatever a later one
\* would hold.  For [small pickup, small pickup, medium delivery] the first
\* vehicle takes the two small pickups under (3,0,0) and the medium delivery
\* is left pending and goes on the second vehicle.
C4_FirstFit ==
    /\ JustPacked =>
          /\ config \in Range(truck_configs)
          /\ \A j \in 1..(ConfigIndex(config) - 1) :
                \A i \in DOMAIN requests :
                    requests[i].size \in RecognisedSizes
                        => truck_configs[j][requests[i].size] = 0
          /\ \E i \in DOMAIN requests :
                /\ requests[i].size \in RecognisedSizes
                /\ config[requests[i].size] > 0
                /\ requests[i].id \in IdsOf(truck_load)
    /\ (IsFirstFitScenario(df) /\ Len(loads) >= 1) =>
          /\ loads[1] = <<df[1], df[2]>>
          /\ (JustPacked /\ Len(loads) = 1) =>
                config = [small |-> 3, medium |-> 0, large |-> 0]
          /\ (pc = "loop" /\ Len(loads) = 1) => requests = <<df[3]>>
          /\ Len(loads) >= 2 => loads[2] = <<df[3]>>

C4_Witness ==
    /\ IsFirstFitScenario(df)
    /\ pc = "loop"
    /\ Len(loads) = 1
    /\ requests = <<df[3]>>

\* C5: the load pack_truck returns is at least as large as the load any of
\* the truck configurations yields from the same pool.
C5_BestFit ==
    JustPacked =>
        \A k \in DOMAIN truck_configs :
            Len(truck_load) >= Len(FillConfig(requests, truck_configs[k]))

\* C6: a delivery of size s is in the returned load only if every pending
\* pickup of size s is in the load too.
C6_PickupsFirst ==
    JustPacked =>
        \A i \in DOMAIN truck_load :
            truck_load[i].type = "delivery" =>
                \A j \in DOMAIN requests :
                    (requests[j].type = "pickup"
                        /\ requests[j].size = truck_load[i].size)
                    => requests[j].id \in IdsOf(truck_load)

\* Pickups and deliveries of one size compete for the slots: the load holds
\* both and a delivery of that size stays behind.
C6_Witness ==
    /\ JustPacked
    /\ \E i, j \in DOMAIN truck_load :
          /\ truck_load[i].type = "pickup"
          /\ truck_load[j].type = "delivery"
          /\ truck_load[i].size = truck_load[j].size
          /\ \E k \in DOMAIN requests :
                /\ requests[k].type = "delivery"
                /\ requests[k].size = truck_load[j].size
                /\ requests[k].id \notin IdsOf(truck_load)

\* C7: if a request is in the returned load, every pending request of the
\* same type and size that comes before it in the pending list is in the
\* load too.
C7_PoolOrder ==
    JustPacked =>
        \A j \in DOMAIN requests :
            requests[j].id \in IdsOf(truck_load) =>
                \A i \in 1..(j - 1) :
                    (requests[i].type = requests[j].type
                        /\ requests[i].size = requests[j].size)
                    => requests[i].id \in IdsOf(truck_load)

\* Two requests of one type and size, the earlier loaded, the later not.
C7_Witness ==
    /\ JustPacked
    /\ \E i, j \in DOMAIN requests :
          /\ i < j
          /\ requests[i].type = requests[j].type
          /\ requests[i].size = requests[j].size
          /\ requests[i].id \in IdsOf(truck_load)
          /\ requests[j].id \notin IdsOf(truck_load)

\* C8: a call of pack_truck leaves the pending list as it was, a load being
\* returned or not; requests leave the list only in the removal step of the
\* orchestrator loop.
C8_PackReadsOnly ==
    [][ /\ pc = "loop" => requests' = requests
        /\ pc /= "routed" =>
              [i \in DOMAIN requests' |-> requests'[i].id]
                  = [i \in DOMAIN requests |-> requests[i].id] ]_vars

\* pack_truck has returned a load for the second time and everything it
\* loaded is still pending.
C8_Witness ==
    /\ JustPacked
    /\ Len(loads) = 2
    /\ IdsOf(truck_load) \subseteq IdsOf(requests)
    /\ Len(requests) > Len(truck_load)

----------------------------------------------------------------------------
(* Properties of optimize_route_order *)

\* optimize_route_order has returned optimized_route for a non-empty load.
Sequenced == pc = "seq_ret" /\ truck_load /= <<>>

IsDepot(stop) == stop.type = "depot"

\* C9: the route of a non-empty load has a depot_start stop first and a
\* depot_end stop last, both at the depot coordinates, and no depot stop
\* anywhere else.
C9_DepotBookends ==
    Sequenced =>
        /\ Len(optimized_route) >= 2
        /\ IsDepot(optimized_route[1])
        /\ optimized_route[1].stop_type = "depot_start"
        /\ optimized_route[1].coordinates = depot
        /\ IsDepot(optimized_route[Len(optimized_route)])
        /\ optimized_route[Len(optimized_route)].stop_type = "depot_end"
        /\ optimized_route[Len(optimized_route)].coordinates = depot
        /\ \A i \in 2..(Len(optimized_route) - 1) :
              ~IsDepot(optimized_route[i])

\* A load with pickups and deliveries, one of them at an address that
\* resolves to the depot coordinates.
C9_Witness ==
    /\ Sequenced
    /\ Len(truck_load) = 3
    /\ \E i, j, k \in DOMAIN truck_load :
          /\ truck_load[i].type = "pickup"
          /\ truck_load[j].type = "delivery"
          /\ truck_load[k].coordinates = depot

\* C10: the non-depot stops of the route of a non-empty load are the
\* requests of the load, each once: the route has load size + 2 stops.
C10_StopsAreTheLoad ==
    Sequenced =>
        /\ Len(optimized_route) = Len(truck_load) + 2
        /\ \A i \in DOMAIN truck_load :
              Cardinality({k \in DOMAIN optimized_route :
                              /\ ~IsDepot(optimized_route[k])
                              /\ optimized_route[k] = truck_load[i]}) = 1
        /\ \A k \in DOMAIN optimized_route :
              ~IsDepot(optimized_route[k]) =>
                  \E i \in DOMAIN truck_load :
                      optimized_route[k] = truck_load[i]

\* Nearest-neighbour reorders the load: the first pickup of the load is not
\* the first stop after the depot.
C10_Witness ==
    /\ Sequenced
    /\ Len(truck_load) = 3
    /\ \A i \in DOMAIN truck_load : truck_load[i].type = "pickup"
    /\ optimized_route[2].id /= truck_load[1].id

\* C11: in the route of a load every pickup stop comes before every
\* delivery stop, between the opening and the closing depot stop.
C11_PickupsBeforeDeliveries ==
    Sequenced =>
        /\ IsDepot(optimized_route[1])
        /\ IsDepot(optimized_route[Len(optimized_route)])
        /\ \A i, j \in DOMAIN optimized_route :
              /\ optimized_route[i].type = "pickup"
              /\ optimized_route[j].type = "delivery"
              => i < j

\* A load that lists a delivery before its pickups.
C11_Witness ==
    /\ Sequenced
    /\ Len(truck_load) = 3
    /\ truck_load[1].type = "delivery"
    /\ truck_load[2].type = "pickup"
    /\ truck_load[3].type = "pickup"
    /\ optimized_route[4].id = truck_load[1].id

----------------------------------------------------------------------------
(* Properties of nearest_neighbor_route *)

\* nearest_neighbor_route has returned optimized_route for the stops
\* truck_load.
NNReturned == pc = "nn_ret"

\* The position of a stop in the list given to nearest_neighbor_route.
InputIndex(stop) == CHOOSE i \in DOMAIN truck_load : truck_load[i].id = stop.id

\* C12: the sequence returned by nearest_neighbor_route holds the given
\* stops, each once; each stop of it is, among the stops not yet visited, at
\* minimal distance from the current position (the depot at first, then the
\* stop visited last), and among stops at that same distance it is the
\* first of the input.  A stop 1 mile from the depot is visited before one
\* 3 miles from the depot and 2 miles from the first.
C12_NearestNeighbor ==
    NNReturned =>
        /\ Len(optimized_route) = Len(truck_load)
        /\ IdsOf(optimized_route) = IdsOf(truck_load)
        /\ \A k \in DOMAIN optimized_route :
              optimized_route[k] = truck_load[InputIndex(optimized_route[k])]
        /\ \A k \in DOMAIN optimized_route :
              \A m \in (k + 1)..Len(optimized_route) :
                  LET current_pos == IF k = 1 THEN depot
                                     ELSE optimized_route[k - 1].coordinates
                      here == Distance(current_pos, optimized_route[k])
                      there == Distance(current_pos, optimized_route[m])
                  IN  /\ here <= there
                      /\ here = there =>
                             InputIndex(optimized_route[k])
                                 < InputIndex(optimized_route[m])
        /\ \A a, b \in DOMAIN truck_load :
              /\ Len(truck_load) = 2
              /\ truck_load[a].coordinates = NearPoint
              /\ truck_load[b].coordinates = FarPoint
              => /\ optimized_route[1] = truck_load[a]
                 /\ optimized_route[2] = truck_load[b]

\* The far stop is given first, then two stops at the near point: the near
\* stops are visited first, in input order, then the far one.
C12_Witness ==
    /\ NNReturned
    /\ Len(truck_load) = 3
    /\ truck_load[1].coordinates = FarPoint
    /\ truck_load[2].coordinates = NearPoint
    /\ truck_load[3].coordinates = NearPoint
    /\ optimized_route = <<truck_load[2], truck_load[3], truck_load[1]>>

----------------------------------------------------------------------------
(* Properties of optimize_route_order, continued *)

\* C14: for the empty load optimize_route_order returns the empty sequence,
\* and a route holds a depot stop only when the load is not empty.
C14_EmptyLoad ==
    pc = "seq_ret" =>
        /\ truck_load = <<>> => optimized_route = <<>>
        /\ (\E k \in DOMAIN optimized_route : IsDepot(optimized_route[k]))
               => truck_load /= <<>>

C14_Witness ==
    /\ pc = "seq_ret"
    /\ truck_load = <<>>
    /\ optimized_route = <<>>

----------------------------------------------------------------------------
(* Properties of calculate_route_metrics *)

\* calculate_route_metrics has returned metrics for optimized_route.
MetricsReturned == pc = "metrics_ret"

\* f[1] + ... + f[n]
RECURSIVE SumTo(_, _)
SumTo(f, n) == IF n <= 0 THEN 0 ELSE f[n] + SumTo(f, n - 1)

\* The distance of each leg of a route, from stop i to stop i + 1.
Legs(route) ==
    [i \in 1..(Len(route) - 1) |->
        haversine_distance(route[i].coordinates[1], route[i].coordinates[2],
                           route[i + 1].coordinates[1],
                           route[i + 1].coordinates[2])]

\* The number of stops of type t the route arrives at: all but its first.
Arrivals(route, t) ==
    Cardinality({i \in 2..Len(route) : route[i].type = t})

\* The depot, a pickup 5 miles away, a delivery 8 miles further, and 6 miles
\* back to the depot.
TriangleRoute ==
    <<[type |-> "depot", coordinates |-> depot],
      [type |-> "pickup", coordinates |-> LegPoint],
      [type |-> "delivery", coordinates |-> TurnPoint],
      [type |-> "depot", coordinates |-> depot]>>

\* C15: total_distance is the sum of the distances of the consecutive legs,
\* and total_time is 30 minutes for each pickup arrived at, 20 minutes for
\* each delivery arrived at and 2.5 minutes for each mile; legs of 5, 8 and
\* 6 miles through one pickup and one delivery give 19 miles and 97.5
\* minutes.
C15_DistanceAndTime ==
    MetricsReturned =>
        /\ metrics.total_distance
               = SumTo(Legs(optimized_route), Len(optimized_route) - 1)
        /\ metrics.total_time
               = 30 * 200 * Arrivals(optimized_route, "pickup")
                 + 20 * 200 * Arrivals(optimized_route, "delivery")
                 + 5 * metrics.total_distance
        /\ optimized_route = TriangleRoute =>
               /\ metrics.total_distance = 19 * 100
               /\ 2 * metrics.total_time = 195 * 200

C15_Witness ==
    /\ MetricsReturned
    /\ optimized_route = TriangleRoute
    /\ metrics = [total_distance |-> 1900, total_time |-> 19500]

\* total_time - 2.5 * total_distance
ServiceTime(m) == m.total_time - 5 * m.total_distance

Reverse(route) == [i \in 1..Len(route) |-> route[Len(route) + 1 - i]]

\* The service charge of a stop when the route arrives at it.
ServiceCharge(stop) ==
    IF stop.type = "pickup" THEN 30 * 200
    ELSE IF stop.type = "delivery" THEN 20 * 200
    ELSE 0

\* C16, as stated: for every route the service time is the service time of
\* the reversed route.
C16_ReversalAnyRoute ==
    MetricsReturned =>
        ServiceTime(metrics)
            = ServiceTime(calculate_route_metrics(Reverse(optimized_route)))

\* C16, amended: the first stop of a route is never charged, so the service
\* time of a route and of its reversal are equal exactly when the first and
\* the last stop carry the same service charge, as they do on every route
\* from depot to depot.
C16_ReversalSameEnds ==
    (MetricsReturned /\ optimized_route /= <<>>) =>
        ((ServiceTime(metrics)
            = ServiceTime(calculate_route_metrics(Reverse(optimized_route))))
         <=> (ServiceCharge(optimized_route[1])
                = ServiceCharge(optimized_route[Len(optimized_route)])))

\* A depot-to-depot route through a pickup and a delivery whose reversal
\* visits the delivery first.
C16_Witness ==
    /\ MetricsReturned
    /\ Len(optimized_route) = 4
    /\ optimized_route[1].type = "depot"
    /\ optimized_route[2].type = "pickup"
    /\ optimized_route[3].type = "delivery"
    /\ optimized_route[4].type = "depot"
    /\ optimized_route[2].coordinates /= optimized_route[3].coordinates
    /\ ServiceTime(metrics) = 50 * 200

----------------------------------------------------------------------------
(* Properties of the orchestrator loop, continued *)

\* The value assign_all_routes returns (line 316): the truck records.
Outcome == trucks

\* The ids of the requests named anywhere in the outcome.
ReportedIds ==
    UNION {{Outcome[t].route[k].id :
               k \in {j \in DOMAIN Outcome[t].route :
                         ~IsDepot(Outcome[t].route[j])}} :
           t \in DOMAIN Outcome}

\* C17: when the loop has stopped with requests still pending, the outcome
\* of assign_all names each of these stranded requests.
C17_StrandedReported ==
    (pc = "done" /\ requests /= <<>>) =>
        \A i \in DOMAIN requests : requests[i].id \in ReportedIds

\* The part of C18 that holds in every state: no load holds a request of
\* unrecognised size, such a request is pending from the first iteration to
\* the last, and once the loop has stopped every request of recognised size
\* is in exactly one load and no longer pending.
UnrecognisedStaysRecognisedGoes ==
    /\ \A v \in DOMAIN loads : \A k \in DOMAIN loads[v] :
           loads[v][k].size \in RecognisedSizes
    /\ \A i \in DOMAIN df :
           df[i].size \notin RecognisedSizes =>
               /\ df[i].id \in IdsOf(requests)
               /\ Occurrences(df[i].id) = 0
    /\ pc = "done" =>
           \A i \in DOMAIN df :
               df[i].size \in RecognisedSizes =>
                   /\ Occurrences(df[i].id) = 1
                   /\ df[i].id \notin IdsOf(requests)

\* C18: pack_truck returns for every pool with requests of unrecognised
\* size, it never loads such a request, the request stays pending through
\* every iteration, and the loop stops, every request of recognised size of
\* the pool having been assigned.
C18_UnrecognisedSize ==
    /\ []UnrecognisedStaysRecognisedGoes
    /\ <>(pc = "done")

\* The loop has stopped with only requests of unrecognised size pending,
\* the first row of the CSV among them, after two loads.
C18_Witness ==
    /\ pc = "done"
    /\ requests /= <<>>
    /\ df[1].size \notin RecognisedSizes
    /\ \E i \in DOMAIN df : df[i].size \notin RecognisedSizes /\ i > 2
    /\ Len(loads) = 2

----------------------------------------------------------------------------
(* Properties of schedule_daily_deliveries *)

\* schedule_daily_deliveries has returned daily_deliveries for client_prefs
\* and target_date.
Scheduled == pc = "sched_ret"

\* The distinct clients with a preference row for the date.
ClientsOn(date) ==
    {client_prefs[i].client_name :
        i \in {j \in DOMAIN client_prefs :
                  client_prefs[j].preferred_date = date}}

\* C20: schedule_daily_deliveries accepts at most 4 deliveries for the
\* target date, the accepted rows are rows of the preference table with
\* pairwise distinct client names, and each has the target date as its
\* preferred date.
C20_DailyCap ==
    Scheduled =>
        /\ Len(daily_deliveries) <= 4
        /\ \A i, j \in DOMAIN daily_deliveries :
               daily_deliveries[i].client_name
                   = daily_deliveries[j].client_name => i = j
        /\ \A i \in DOMAIN daily_deliveries :
               /\ daily_deliveries[i].preferred_date = target_date
               /\ daily_deliveries[i] \in Range(client_prefs)

\* Five clients ask for the target date, one of them with two rows, and
\* four deliveries are accepted.
C20_Witness ==
    /\ Scheduled
    /\ Cardinality(ClientsOn(target_date)) = 5
    /\ Len(DateRequests(client_prefs, target_date)) = 6
    /\ Len(daily_deliveries) = 4

----------------------------------------------------------------------------
(* Properties of the loads emitted with the built-in configurations *)

\* The load holds a request of size s.
Carries(load, s) == \E k \in DOMAIN load : load[k].size = s

\* C28: every load emitted by assign_all_routes holds requests of one size
\* only: at most three smalls, or exactly one medium, or exactly one large.
\* No truck record carries configuration (0,2,0), no load holds two mediums
\* and no load holds a small together with a medium.
C28_SingleSizeLoads ==
    /\ \A v \in DOMAIN loads :
           \/ /\ Len(loads[v]) \in 1..3
              /\ \A k \in DOMAIN loads[v] : loads[v][k].size = "small"
           \/ /\ Len(loads[v]) = 1
              /\ loads[v][1].size \in {"medium", "large"}
    /\ \A v \in DOMAIN loads :
           /\ CountSize(loads[v], "medium") <= 1
           /\ ~(Carries(loads[v], "small") /\ Carries(loads[v], "medium"))
    /\ \A t \in DOMAIN trucks : trucks[t].config /= "0S+2M+0L"
    /\ JustPacked => config /= [small |-> 0, medium |-> 2, large |-> 0]

\* Two smalls and two mediums were pending: the mediums leave in two loads
\* of one, under configuration (2,1,0).
C28_Witness ==
    /\ pc = "done"
    /\ Len(df) = 4
    /\ CountSize(df, "small") = 2
    /\ CountSize(df, "medium") = 2
    /\ Len(loads) = 3
    /\ trucks[2].config = "2S+1M+0L"
    /\ trucks[3].config = "2S+1M+0L"

\* C29: in the order of emission every load with a small request comes
\* before every load with a medium one, and every load with a medium one
\* before every load with a large one; when a medium has just been packed no
\* small request is pending, and when a large has just been packed no small
\* or medium request is pending.
C29_SmallMediumLarge ==
    /\ \A v, w \in DOMAIN loads :
           /\ (Carries(loads[v], "small") /\ Carries(loads[w], "medium"))
                  => v < w
           /\ (Carries(loads[v], "medium") /\ Carries(loads[w], "large"))
                  => v < w
           /\ (Carries(loads[v], "small") /\ Carries(loads[w], "large"))
                  => v < w
    /\ JustPacked =>
           /\ Carries(truck_load, "medium") => ~Carries(requests, "small")
           /\ Carries(truck_load, "large") =>
                  /\ ~Carries(requests, "small")
                  /\ ~Carries(requests, "medium")

\* The CSV lists a large request first, then a medium, then a small: the
\* loads leave in the opposite order.
C29_Witness ==
    /\ pc = "done"
    /\ Len(df) = 3
    /\ df[1].size = "large"
    /\ df[2].size = "medium"
    /\ df[3].size = "small"
    /\ Len(loads) = 3
    /\ loads[1][1].size = "small"
    /\ loads[2][1].size = "medium"
    /\ loads[3][1].size = "large"

\* The rows of the preference table for the target date.
OnDate == DateRequests(client_prefs, target_date)

\* The clients of the accepted rows.
Accepted == {daily_deliveries[i].client_name : i \in DOMAIN daily_deliveries}

\* The lowest rank among the rows of a client for the target date.
BestRank(client) ==
    CHOOSE r \in Ranks :
        /\ \E i \in DOMAIN OnDate :
               OnDate[i].client_name = client /\ OnDate[i].preference_rank = r
        /\ \A i \in DOMAIN OnDate :
               OnDate[i].client_name = client =>
                   r <= OnDate[i].preference_rank

\* The number of rows of the preference table with the rank.
RowsOfRank(r) ==
    Cardinality({i \in DOMAIN client_prefs :
                    client_prefs[i].preference_rank = r})

\* C21: clients are accepted in ascending preference rank.  No client left
\* out has a row for the date with a rank strictly lower than the rank of
\* an accepted row; an accepted client is accepted through a row of their
\* lowest rank for the date; when fewer than 4 are accepted, every client
\* with a row for the date is accepted.  Of six clients of ranks 1, 1, 1,
\* 2, 2, 3 the three of rank 1 and one of rank 2 are accepted.
C21_RankOrder ==
    Scheduled =>
        /\ \A i \in DOMAIN OnDate :
               OnDate[i].client_name \notin Accepted =>
                   \A j \in DOMAIN daily_deliveries :
                       OnDate[i].preference_rank
                           >= daily_deliveries[j].preference_rank
        /\ \A j \in DOMAIN daily_deliveries :
               daily_deliveries[j].preference_rank
                   = BestRank(daily_deliveries[j].client_name)
        /\ Len(daily_deliveries) < 4 => Accepted = ClientsOn(target_date)
        /\ (/\ Len(client_prefs) = 6
            /\ Cardinality(ClientsOn(target_date)) = 6
            /\ RowsOfRank(1) = 3
            /\ RowsOfRank(2) = 2
            /\ RowsOfRank(3) = 1)
               => /\ Len(daily_deliveries) = 4
                  /\ Cardinality({j \in 1..4 :
                         daily_deliveries[j].preference_rank = 1}) = 3
                  /\ Cardinality({j \in 1..4 :
                         daily_deliveries[j].preference_rank = 2}) = 1

\* Six clients in the order of ranks 3, 2, 2, 1, 1, 1 in the table: the
\* three of rank 1 and one of rank 2 are accepted, the client of rank 3 and
\* one of rank 2 are left out.
C21_Witness ==
    /\ Scheduled
    /\ Len(client_prefs) = 6
    /\ Cardinality(ClientsOn(target_date)) = 6
    /\ [i \in 1..6 |-> client_prefs[i].preference_rank]
           = <<3, 2, 2, 1, 1, 1>>
    /\ Len(daily_deliveries) = 4
    /\ client_prefs[1].client_name \notin Accepted
    /\ client_prefs[3].client_name \in Accepted
    /\ client_prefs[2].client_name \notin Accepted

----------------------------------------------------------------------------
(* Properties of DailyTruckScheduler.create_daily_schedule *)

\* C27: every truck entry of the schedule carries between 1 and 3
\* deliveries and between 1 and 3 pickups.
C27_OneToThreeEach ==
    \A e \in DOMAIN schedule :
        /\ schedule[e].deliveries \in 1..3
        /\ schedule[e].pickups \in 1..3

\* The clients with a delivery in a day's schedule.
ScheduledClients(day_schedule) ==
    {day_schedule.deliveries[i].client_name :
        i \in DOMAIN day_schedule.deliveries}

\* The position of the last delivery of a day's schedule.
LastDeliveryPosition(day_schedule) ==
    LocationOf(day_schedule.deliveries[Len(day_schedule.deliveries)])

\* C23: create_daily_schedule for a date on which no client has a preference
\* returns a schedule with no deliveries, no pickups and total_distance 0,
\* whatever the donor pickup table holds.
C23_EmptyDate ==
    \A k \in DOMAIN schedules :
        DateRequests(client_prefs, LoopDates[k]) = <<>> =>
            /\ schedules[k].date = LoopDates[k]
            /\ schedules[k].deliveries = <<>>
            /\ schedules[k].pickups = <<>>
            /\ schedules[k].total_distance = 0

\* A date without preferences has been scheduled while donors wait and
\* clients have preferences for another date.
C23_Witness ==
    /\ donor_pickups /= <<>>
    /\ client_prefs /= <<>>
    /\ \E k \in DOMAIN schedules :
           DateRequests(client_prefs, LoopDates[k]) = <<>>

\* C25: select_donor_pickups_on_route selects exactly min(3, size of the
\* pool) different donor pickups of the pool, and every selected pickup is at
\* most as far from the position of the last delivery as every pickup of the
\* pool that is not selected.
C25_NearestThree ==
    \A k \in DOMAIN schedules :
        schedules[k].deliveries /= <<>> =>
            LET selected == {schedules[k].pickups[i].index :
                                i \in DOMAIN schedules[k].pickups}
                last == LastDeliveryPosition(schedules[k])
            IN  /\ Len(schedules[k].pickups)
                       = (IF Len(donor_pickups) < 3
                          THEN Len(donor_pickups) ELSE 3)
                /\ Cardinality(selected) = Len(schedules[k].pickups)
                /\ \A i \in DOMAIN schedules[k].pickups :
                       \E j \in DOMAIN donor_pickups :
                           /\ donor_pickups[j].index
                                  = schedules[k].pickups[i].index
                           /\ donor_pickups[j].donor_name
                                  = schedules[k].pickups[i].donor_name
                           /\ donor_pickups[j].address
                                  = schedules[k].pickups[i].address
                /\ \A i, j \in DOMAIN donor_pickups :
                       (/\ donor_pickups[i].index \in selected
                        /\ donor_pickups[j].index \notin selected) =>
                           great_circle(last, LocationOf(donor_pickups[i]))
                               <= great_circle(last,
                                               LocationOf(donor_pickups[j]))

\* Pickups have been selected from a pool of more than 3, and a row of the
\* pool is left out while a later row is selected.
C25_Witness ==
    \E k \in DOMAIN schedules :
        /\ schedules[k].deliveries /= <<>>
        /\ Len(donor_pickups) > 3
        /\ Len(schedules[k].pickups) = 3
        /\ \E i \in DOMAIN schedules[k].pickups :
               \E j \in DOMAIN donor_pickups :
                   /\ donor_pickups[j].index < schedules[k].pickups[i].index
                   /\ \A h \in DOMAIN schedules[k].pickups :
                          schedules[k].pickups[h].index
                              /= donor_pickups[j].index

\* The sum of the legs along a sequence of positions, in 1/100 mile.
RECURSIVE LegSum(_)
LegSum(points) ==
    IF Len(points) <= 1
    THEN 0
    ELSE great_circle(points[1], points[2]) + LegSum(Tail(points))

\* warehouse -> deliveries in their order -> pickups in their order ->
\* warehouse
DayRoute(day_schedule) ==
    <<warehouse>>
        \o [i \in DOMAIN day_schedule.deliveries |->
               LocationOf(day_schedule.deliveries[i])]
        \o [i \in DOMAIN day_schedule.pickups |->
               LocationOf(day_schedule.pickups[i])]
        \o <<warehouse>>

\* C24 as stated: total_distance is the sum of the legs warehouse ->
\* deliveries in their scheduled order -> pickups in their scheduled order
\* -> warehouse.
C24_ExactSum ==
    \A k \in DOMAIN schedules :
        schedules[k].total_distance * 10 = LegSum(DayRoute(schedules[k]))

\* C24, amended: total_distance is the sum of the legs warehouse ->
\* deliveries in their scheduled order -> pickups in their scheduled order
\* -> warehouse, the return leg included, rounded to the nearest tenth of a
\* mile.
C24_RoundedSum ==
    \A k \in DOMAIN schedules :
        LET exact == LegSum(DayRoute(schedules[k]))
            tenths == schedules[k].total_distance * 10
        IN  /\ tenths - exact <= 5
            /\ exact - tenths <= 5

\* A day with deliveries and pickups whose legs do not sum to a whole tenth
\* of a mile.
C24_Witness ==
    \E k \in DOMAIN schedules :
        /\ schedules[k].deliveries /= <<>>
        /\ schedules[k].pickups /= <<>>
        /\ LegSum(DayRoute(schedules[k])) % 10 /= 0

\* C30: over the dates of the loop a client is scheduled for delivery on at
\* most one date.
C30_OneDatePerClient ==
    \A j, k \in DOMAIN schedules :
        j /= k =>
            ScheduledClients(schedules[j]) \cap ScheduledClients(schedules[k])
                = {}

\* C22: a day's schedule never holds more than 4 deliveries, after
\* create_daily_schedule and after every sequence of add_manual_delivery
\* calls.
C22_NeverMoreThanFour ==
    daily_schedule /= NoSchedule => Len(daily_schedule.deliveries) <= 4

\* The rows of the preference table whose client has no delivery in the
\* day's schedule.
NotYetScheduled ==
    {i \in DOMAIN client_prefs :
        client_prefs[i].client_name \notin ScheduledClients(daily_schedule)}

\* The delivery route after the i-th preference row is inserted and the
\* whole route is put in nearest-neighbour order again.
RouteWith(i) ==
    optimize_delivery_route(
        IgnoreIndex(Append(daily_schedule.deliveries, client_prefs[i])))

====
